---------------------------- MODULE Spec2Model ----------------------------
(***************************************************************************)
(* A model of zagreus: the wire codec (encode / decode / command) and the  *)
(* Z80Server event loop of src/zagreus/server.py.                          *)
(*                                                                         *)
(* Bytes are numbers 0..255, a bytes object is a sequence of them.  A str  *)
(* is a sequence of code points.                                           *)
(***************************************************************************)
EXTENDS Integers, Sequences, FiniteSets, TLC

(***************************************************************************)
(* Bounds of the model.                                                    *)
(***************************************************************************)
\* longest str handed to the codec in SpecCodec
MaxLen == 3
\* total number of things the environment does to a running server: bytes
\* the device emits, chunks the clients submit, exceptional conditions
MaxEvents == 2

(***************************************************************************)
(* Characters and bytes with a name.                                       *)
(***************************************************************************)
LF == 10
CR == 13
QUESTION == 63
REPLACEMENT == 65533

\* server.py:19  ESCAPE = b'\xff'
ESCAPE == 255
\* server.py:20  RESET = b'r'
RESET == <<114>>

(***************************************************************************)
(* Python's codecs, as far as the program uses them.                       *)
(***************************************************************************)
RECURSIVE Flatten(_)
Flatten(ss) == IF ss = <<>> THEN <<>> ELSE Head(ss) \o Flatten(Tail(ss))

IsSurrogate(c) == c >= 55296 /\ c <= 57343

\* str.encode('utf-8', 'replace') of one code point: a lone surrogate cannot
\* be encoded and is replaced by '?'.
Utf8EncodeChar(c) ==
    IF c < 128 THEN <<c>>
    ELSE IF c < 2048 THEN <<192 + (c \div 64), 128 + (c % 64)>>
    ELSE IF IsSurrogate(c) THEN <<QUESTION>>
    ELSE IF c < 65536
         THEN <<224 + (c \div 4096), 128 + ((c \div 64) % 64), 128 + (c % 64)>>
    ELSE <<240 + (c \div 262144), 128 + ((c \div 4096) % 64),
           128 + ((c \div 64) % 64), 128 + (c % 64)>>

\* a faulty variant: the code point's low byte, as latin-1 would encode it
Latin1EncodeChar(c) == <<c % 256>>

EncodeChar(c) == Utf8EncodeChar(c)

Utf8Encode(text) == Flatten([i \in 1..Len(text) |-> EncodeChar(text[i])])

IsCont(b) == b >= 128 /\ b <= 191

\* the number of bytes the lead byte b announces (0: b is no lead byte)
Utf8Need(b) ==
    IF b < 128 THEN 1
    ELSE IF b >= 194 /\ b <= 223 THEN 2
    ELSE IF b >= 224 /\ b <= 239 THEN 3
    ELSE IF b >= 240 /\ b <= 244 THEN 4
    ELSE 0

\* whether b2 may follow the lead byte b (no overlong forms, no surrogates,
\* nothing above U+10FFFF)
Utf8Second(b, b2) ==
    IF b = 224 THEN b2 >= 160 /\ b2 <= 191
    ELSE IF b = 237 THEN b2 >= 128 /\ b2 <= 159
    ELSE IF b = 240 THEN b2 >= 144 /\ b2 <= 191
    ELSE IF b = 244 THEN b2 >= 128 /\ b2 <= 143
    ELSE IsCont(b2)

\* the length of the longest well-formed start of a sequence at data[i]
RECURSIVE Utf8Run(_, _, _, _)
Utf8Run(data, i, k, need) ==
    IF k = need \/ i + k > Len(data) THEN k
    ELSE IF (k = 1 /\ Utf8Second(data[i], data[i + 1])) \/ (k > 1 /\ IsCont(data[i + k]))
         THEN Utf8Run(data, i, k + 1, need)
    ELSE k

Utf8Value(data, i, need) ==
    IF need = 1 THEN data[i]
    ELSE IF need = 2 THEN (data[i] - 192) * 64 + (data[i + 1] - 128)
    ELSE IF need = 3
         THEN (data[i] - 224) * 4096 + (data[i + 1] - 128) * 64 + (data[i + 2] - 128)
    ELSE (data[i] - 240) * 262144 + (data[i + 1] - 128) * 4096
         + (data[i + 2] - 128) * 64 + (data[i + 3] - 128)

\* bytes.decode('utf-8', 'replace'): every maximal ill-formed part becomes
\* one U+FFFD.
RECURSIVE Utf8DecodeFrom(_, _)
Utf8DecodeFrom(data, i) ==
    IF i > Len(data) THEN <<>>
    ELSE LET need == Utf8Need(data[i])
             run  == IF need = 0 THEN 1 ELSE Utf8Run(data, i, 1, need)
         IN  IF need # 0 /\ run = need
             THEN <<Utf8Value(data, i, need)>> \o Utf8DecodeFrom(data, i + need)
             ELSE <<REPLACEMENT>> \o Utf8DecodeFrom(data, i + run)

Utf8Decode(data) == Utf8DecodeFrom(data, 1)

\* str.encode('ascii', 'replace')
AsciiEncode(text) ==
    [i \in 1..Len(text) |-> IF text[i] < 128 THEN text[i] ELSE QUESTION]

\* bytes.decode('ascii', 'replace')
AsciiDecode(data) ==
    [i \in 1..Len(data) |-> IF data[i] < 128 THEN data[i] ELSE REPLACEMENT]

(***************************************************************************)
(* The wire codec.                                                         *)
(***************************************************************************)
\* bytes.replace(ESCAPE, ESCAPE + ESCAPE)
DoubleEscape(data) ==
    Flatten([i \in 1..Len(data) |->
                IF data[i] = ESCAPE THEN <<ESCAPE, ESCAPE>> ELSE <<data[i]>>])

encode(text) == DoubleEscape(Utf8Encode(text))

command(c) == <<ESCAPE>> \o c

\* ESCAPE_RE.split(data): the pieces between the matches of ESC-and-any-byte,
\* with the matches themselves, empty pieces included.  acc is the piece
\* being gathered.
RECURSIVE SplitFrom(_, _, _)
SplitFrom(data, i, acc) ==
    IF i > Len(data) THEN <<acc>>
    ELSE IF data[i] = ESCAPE /\ i < Len(data)
         THEN <<acc, <<data[i], data[i + 1]>>>> \o SplitFrom(data, i + 2, <<>>)
    ELSE SplitFrom(data, i + 1, Append(acc, data[i]))

EscapeSplit(data) == SplitFrom(data, 1, <<>>)

\* a faulty variant: a split that drops its empty pieces
EscapeSplitNoEmpty(data) == SelectSeq(SplitFrom(data, 1, <<>>), LAMBDA p : p # <<>>)

Pieces(data) == EscapeSplit(data)

\* one piece of the split: a piece that starts with ESC is a command and
\* carries what follows the ESC as bytes, any other piece is text.
DecodeChunk(chunk) ==
    IF chunk # <<>> /\ Head(chunk) = ESCAPE
    THEN [is_cmd |-> TRUE, chunk |-> Tail(chunk)]
    ELSE [is_cmd |-> FALSE, chunk |-> Utf8Decode(chunk)]

decode(data) ==
    LET pieces == Pieces(data)
    IN  [i \in 1..Len(pieces) |-> DecodeChunk(pieces[i])]


(***************************************************************************)
(* The state.                                                              *)
(*   Z80Server: sock, connections, conn_addrs, backbuffer.                 *)
(*   The process around it: raised (the exception serve_once let out),     *)
(*   exited (the with-block has run __exit__).                             *)
(*   The sockets and the device, as the kernel holds them: backlog (the    *)
(*   connections not yet accepted), peer (each client's end), tx (bytes a  *)
(*   client has sent that the server has not read), dev_pending (bytes the *)
(*   device has sent that the server has not read), oob (the descriptors   *)
(*   with an exceptional condition pending).                               *)
(*   What was observed: rx (the bytes each client got, each with the call  *)
(*   joined (the length of bcast at the client's accept), bcast (every     *)
(*   character handed to send_to_all, with its origin), z80_log (the       *)
(*   resets and the bytes written to the device, in order), recvd (the     *)
(*   chunks read from each client), closed (the connections the server     *)
(*   closed), close_log (every socket the server closed, in the order of   *)
(*   the close() calls), and the counters emitted, sends, excs of the      *)
(*   bounds.                                                               *)
(*   The codec's own check: cx_in, cx_cmd, cx_out, cx_pc.                  *)
(*   The clock: now (what time.time() returns).                            *)
(*   serve_until_idle: last_connection_at, select_at (when the select of   *)
(*   the running serve_once was entered), idle_pc (where the loop is),     *)
(*   idle_conns (self.connections as the loop last tested it).             *)
(*   Expect: expect_obj (the object: name, runner, step), ex_calls (the    *)
(*   interact calls made on it and what each one did).                     *)
(*   Z80Client: client (sock, running, in_menu, expect, and what was seen  *)
(*   of it: the bytes it sent, those it sent for a key, the keys it read,  *)
(*   the scripts it started, the errors it reported, the on_output calls   *)
(*   of its scripts, the exception that ended it), link (the connection to *)
(*   the server), inbox (bytes from the server not yet received), kbd      *)
(*   (keys typed and not yet read), said (the messages the server sent).   *)
(***************************************************************************)
VARIABLES sock, connections, conn_addrs, backbuffer, raised, exited,
          backlog, peer, tx, dev_pending, oob,
          rx, joined, bcast, z80_log, recvd, closed, close_log,
          emitted, sends, excs,
          cx_in, cx_cmd, cx_out, cx_pc,
          now,
          last_connection_at, select_at, idle_pc, idle_conns,
          expect_obj, ex_calls,
          client, link, inbox, kbd, said

server_vars == <<sock, connections, conn_addrs, backbuffer, raised, exited>>
kernel_vars == <<backlog, peer, tx, dev_pending, oob>>
seen_vars   == <<rx, joined, bcast, z80_log, recvd, closed, close_log>>
count_vars  == <<emitted, sends, excs>>
codec_vars  == <<cx_in, cx_cmd, cx_out, cx_pc>>
clock_vars  == <<now>>
idle_vars   == <<last_connection_at, select_at, idle_pc, idle_conns>>
\* what the server's actions leave alone
expect_vars == <<expect_obj, ex_calls>>
client_vars == <<client, link, inbox, kbd, said>>
other_vars  == <<codec_vars, clock_vars, idle_vars, expect_vars, client_vars>>
vars == <<server_vars, kernel_vars, seen_vars, count_vars, other_vars>>

\* the clients that may connect, and the order they connect in
Conns == {"c1", "c2"}
ConnOrder == [c \in Conns |-> IF c = "c1" THEN 1 ELSE 2]

\* what the environment has done so far
Events == emitted + sends + excs

\* the raw bytes the device emits: 'A' and a byte that is not ASCII
DeviceBytes == {65, 255}

\* what a client writes to its socket in one piece: LF, 'r', a byte that is
\* not ASCII, a lone ESC, the reset frame, the escaped ESC
ClientChunks == {<<LF>>, <<114>>, <<195>>, <<ESCAPE>>, <<ESCAPE, 114>>, <<ESCAPE, ESCAPE>>}

\* server.py:77  self.buffer_size = 1024
buffer_size == 1024
\* server.py:79  self.backbuffer_max = 1024 * 8, scaled down
backbuffer_max == 1

Range(s) == {s[i] : i \in DOMAIN s}
Take(s, n) == SubSeq(s, 1, IF Len(s) < n THEN Len(s) ELSE n)
Drop(s, n) == SubSeq(s, (IF Len(s) < n THEN Len(s) ELSE n) + 1, Len(s))
Last(s, n) == SubSeq(s, (IF Len(s) < n THEN 0 ELSE Len(s) - n) + 1, Len(s))
Tagged(data, src) == [i \in 1..Len(data) |-> [b |-> data[i], src |-> src]]

\* the server's state and what its calls touch, as one value
Srv ==
    [sock |-> sock, connections |-> connections, conn_addrs |-> conn_addrs,
     backbuffer |-> backbuffer, raised |-> raised,
     backlog |-> backlog, tx |-> tx, dev_pending |-> dev_pending,
     rx |-> rx, joined |-> joined, bcast |-> bcast,
     z80_log |-> z80_log, recvd |-> recvd, closed |-> closed,
     close_log |-> close_log]

(***************************************************************************)
(* Z80: the device.                                                        *)
(***************************************************************************)
\* Z80.reset, on behalf of `by`
z80_reset(st, by) ==
    [st EXCEPT !.z80_log = Append(@, [op |-> "reset", by |-> by, b |-> 0])]

\* Z80.write(data), on behalf of `by`
z80_write(st, by, data) ==
    LET out == AsciiEncode(data)
    IN  [st EXCEPT !.z80_log =
            @ \o [i \in 1..Len(out) |-> [op |-> "write", by |-> by, b |-> out[i]]]]

(***************************************************************************)
(* Z80Server.                                                              *)
(***************************************************************************)
\* close_client(s): the lookup of the label comes first and raises KeyError
\* for a connection that is not registered.
close_client(st, s) ==
    IF s \notin DOMAIN st.conn_addrs
    THEN [st EXCEPT !.raised = "KeyError"]
    ELSE LET keep == DOMAIN st.conn_addrs \ {s}
         IN  [st EXCEPT !.connections = SelectSeq(st.connections, LAMBDA x : x # s),
                        !.conn_addrs = [x \in keep |-> st.conn_addrs[x]],
                        !.closed = @ \cup {s},
                        !.close_log = Append(@, s)]

\* for conn in conns: self.close_client(conn), until one raises
RECURSIVE close_each(_, _)
close_each(st, conns) ==
    IF conns = <<>> \/ st.raised # "none" THEN st
    ELSE close_each(close_client(st, Head(conns)), Tail(conns))

\* self.sock.close(); self.sock = None
close_sock(st) ==
    IF st.sock # "None"
    THEN [st EXCEPT !.sock = "None", !.close_log = Append(@, "sock")]
    ELSE st

\* the listening socket, then a copy of the connections
close_sock_first(st) ==
    LET st1 == close_sock(st)
    IN  close_each(st1, st1.connections)
\* a faulty variant: the listening socket is left open
close_clients_only(st) == close_each(st, st.connections)

close(st) == close_sock_first(st)

\* the backbuffer after data was appended to it
TrimTail(buf) == IF Len(buf) > backbuffer_max THEN Last(buf, backbuffer_max) ELSE buf
\* a faulty variant: keeps the head
TrimHead(buf) == IF Len(buf) > backbuffer_max THEN Take(buf, backbuffer_max) ELSE buf

Trim(buf) == TrimTail(buf)

\* conn.sendall(data) succeeds while the client's end is up
CanSend(conn) == peer[conn] = "up"

\* what send_to_all puts on each socket
FanOutBytes(st, data) == encode(data)
\* a faulty variant: the whole backbuffer again, the new data at its end
FanOutBackbuffer(st, data) == encode(Trim(st.backbuffer \o data))

SentToEach(st, data) == FanOutBytes(st, data)

\* send_to_all(data); src names the caller for the record
send_to_all(st, data, src) ==
    LET wire   == Tagged(SentToEach(st, data), src)
        broken == SelectSeq(st.connections, LAMBDA conn : ~CanSend(conn))
        st1    == [st EXCEPT !.backbuffer = Trim(st.backbuffer \o data),
                             !.bcast = @ \o [i \in 1..Len(data) |-> [c |-> data[i], src |-> src]],
                             !.rx = [conn \in Conns |->
                                        IF conn \in Range(st.connections) /\ CanSend(conn)
                                        THEN st.rx[conn] \o wire ELSE st.rx[conn]]]
    IN  close_each(st1, broken)

\* handle_command(c), for the connection s it came from
handle_command(st, s, c) ==
    IF c = RESET THEN send_to_all(z80_reset(st, s), <<LF>>, "rst") ELSE st

\* chunk.replace('\n', '\r\n')
ReplaceLf(text) ==
    Flatten([i \in 1..Len(text) |-> IF text[i] = LF THEN <<CR, LF>> ELSE <<text[i]>>])
\* a faulty variant: the chunk as it came
ReplaceNothing(text) == text

CrLf(text) == ReplaceLf(text)

\* the body of `for (is_cmd, chunk) in decode(data)`; both branches look up
\* conn_addrs[s] for the log line before they act.
handle_segment(st, s, seg) ==
    IF s \notin DOMAIN st.conn_addrs THEN [st EXCEPT !.raised = "KeyError"]
    ELSE IF seg.is_cmd THEN handle_command(st, s, seg.chunk)
    ELSE z80_write(st, s, CrLf(seg.chunk))

RECURSIVE handle_segments(_, _, _)
handle_segments(st, s, segs) ==
    IF segs = <<>> \/ st.raised # "none" THEN st
    ELSE handle_segments(handle_segment(st, s, Head(segs)), s, Tail(segs))

\* s is self.sock: false once self.sock is None
IsSock(st, s) == s = "sock" /\ st.sock # "None"

\* what the new client is sent
ReplayBytes(st) == encode(st.backbuffer)
\* a faulty variant: no replay
ReplayNothing(st) == <<>>

Replay(st) == ReplayBytes(st)

\* the listening socket is readable: accept, register, send the backbuffer
accept_client(st) ==
    LET conn == Head(st.backlog)
        wire == Replay(st)
        st1  == [st EXCEPT !.backlog = Tail(@),
                           !.connections = Append(@, conn),
                           !.conn_addrs = [x \in DOMAIN @ \cup {conn} |->
                                              IF x = conn THEN "local" ELSE @[x]],
                           !.joined[conn] = Len(st.bcast)]
    IN  IF CanSend(conn)
        THEN [st1 EXCEPT !.rx[conn] = @ \o Tagged(wire, "bb")]
        ELSE [st1 EXCEPT !.raised = "BrokenPipeError"]

\* the device is readable: read, fan out
device_read(st) ==
    LET data == AsciiDecode(Take(st.dev_pending, buffer_size))
    IN  send_to_all([st EXCEPT !.dev_pending = Drop(@, buffer_size)], data, "dev")

\* s.recv(buffer_size), b'' when it raises
Recv(st, s) == IF peer[s] = "reset" THEN <<>> ELSE Take(st.tx[s], buffer_size)

\* a client is readable
client_read(st, s) ==
    LET data == Recv(st, s)
        st1  == [st EXCEPT !.tx[s] = Drop(@, Len(data)),
                           !.recvd[s] = Append(@, data)]
    IN  IF data # <<>> THEN handle_segments(st1, s, decode(data))
        ELSE close_client(st1, s)

handle_except(st, s) ==
    IF IsSock(st, s) THEN close(st)
    ELSE IF s = "z80" THEN close(st)
    ELSE close_client(st, s)

handle_read(st, s) ==
    IF IsSock(st, s) THEN accept_client(st)
    ELSE IF s = "z80" THEN device_read(st)
    ELSE IF s \in Range(st.connections) THEN client_read(st, s)
    ELSE st

RECURSIVE handle_excepts(_, _)
handle_excepts(st, ss) ==
    IF ss = <<>> \/ st.raised # "none" THEN st
    ELSE handle_excepts(handle_except(st, Head(ss)), Tail(ss))

RECURSIVE handle_reads(_, _)
handle_reads(st, ss) ==
    IF ss = <<>> \/ st.raised # "none" THEN st
    ELSE handle_reads(handle_read(st, Head(ss)), Tail(ss))

\* select.select(fds, [], fds): every descriptor that is ready, in the order
\* of fds
Fds == <<"sock", "z80">> \o connections
Readable(fd) ==
    IF fd = "sock" THEN backlog # <<>>
    ELSE IF fd = "z80" THEN dev_pending # <<>>
    ELSE tx[fd] # <<>> \/ peer[fd] \in {"closed", "reset"}
SelectReads == SelectSeq(Fds, Readable)
SelectExcepts == SelectSeq(Fds, LAMBDA fd : fd \in oob)

serve_once(st) == handle_reads(handle_excepts(st, SelectExcepts), SelectReads)

Install(st) ==
    /\ sock' = st.sock
    /\ connections' = st.connections
    /\ conn_addrs' = st.conn_addrs
    /\ backbuffer' = st.backbuffer
    /\ raised' = st.raised
    /\ backlog' = st.backlog
    /\ tx' = st.tx
    /\ dev_pending' = st.dev_pending
    /\ rx' = st.rx
    /\ joined' = st.joined
    /\ bcast' = st.bcast
    /\ z80_log' = st.z80_log
    /\ recvd' = st.recvd
    /\ closed' = st.closed
    /\ close_log' = st.close_log

(***************************************************************************)
(* The actions.                                                            *)
(***************************************************************************)
\* one serve_once call of serve_forever, woken by something being ready
ServeOnce ==
    /\ sock # "None" /\ raised = "none" /\ ~exited
    /\ SelectReads # <<>> \/ SelectExcepts # <<>>
    /\ Install(serve_once(Srv))
    /\ oob' = {}
    /\ UNCHANGED <<exited, peer, count_vars, other_vars>>

\* the with-block ends (serve_forever returned or raised): __exit__ closes
ServerExit ==
    /\ ~exited
    /\ sock = "None" \/ raised # "none"
    /\ LET st == close([Srv EXCEPT !.raised = "none"])
       IN  Install([st EXCEPT !.raised = IF @ = "none" THEN raised ELSE @])
    /\ exited' = TRUE
    /\ UNCHANGED <<peer, oob, count_vars, other_vars>>

ClientConnect(c) ==
    /\ sock # "None" /\ ~exited
    /\ peer[c] = "idle"
    /\ \A d \in Conns : ConnOrder[d] < ConnOrder[c] => peer[d] # "idle"
    /\ peer' = [peer EXCEPT ![c] = "up"]
    /\ backlog' = Append(backlog, c)
    /\ UNCHANGED <<server_vars, tx, dev_pending, oob, seen_vars, count_vars, other_vars>>

ClientSend(c, chunk) ==
    /\ ~exited
    /\ peer[c] = "up" /\ c \notin closed
    /\ Events < MaxEvents
    /\ tx' = [tx EXCEPT ![c] = @ \o chunk]
    /\ sends' = sends + 1
    /\ UNCHANGED <<server_vars, backlog, peer, dev_pending, oob, seen_vars,
                   emitted, excs, other_vars>>

\* the client closes its socket: the server reads what is left, then EOF
ClientClose(c) ==
    /\ ~exited
    /\ peer[c] = "up" /\ c \notin closed
    /\ peer' = [peer EXCEPT ![c] = "closed"]
    /\ UNCHANGED <<server_vars, backlog, tx, dev_pending, oob, seen_vars,
                   count_vars, other_vars>>

\* the connection is reset with bytes still unread: the server's recv raises
\* and the bytes are lost (with nothing unread the server sees what it sees
\* after ClientClose: no data)
ClientReset(c) ==
    /\ ~exited
    /\ peer[c] = "up" /\ c \notin closed
    /\ tx[c] # <<>>
    /\ peer' = [peer EXCEPT ![c] = "reset"]
    /\ UNCHANGED <<server_vars, backlog, tx, dev_pending, oob, seen_vars,
                   count_vars, other_vars>>

DeviceEmit(b) ==
    /\ ~exited
    /\ Events < MaxEvents
    /\ dev_pending' = Append(dev_pending, b)
    /\ emitted' = emitted + 1
    /\ UNCHANGED <<server_vars, backlog, peer, tx, oob, seen_vars, sends, excs,
                   other_vars>>

\* an exceptional condition shows up on a descriptor
Exceptional(fd) ==
    /\ ~exited /\ sock # "None"
    /\ Events < MaxEvents
    /\ fd \in Range(Fds) /\ fd \notin oob
    /\ oob' = oob \cup {fd}
    /\ excs' = excs + 1
    /\ UNCHANGED <<server_vars, backlog, peer, tx, dev_pending, seen_vars,
                   emitted, sends, other_vars>>

\* Z80Server.__init__ and the world around it before anything happened
InitServer ==
    /\ sock = "listening"
    /\ connections = <<>>
    /\ conn_addrs = <<>>
    /\ backbuffer = <<>>
    /\ raised = "none"
    /\ exited = FALSE
    /\ backlog = <<>>
    /\ peer = [c \in Conns |-> "idle"]
    /\ tx = [c \in Conns |-> <<>>]
    /\ dev_pending = <<>>
    /\ oob = {}
    /\ rx = [c \in Conns |-> <<>>]
    /\ joined = [c \in Conns |-> 0]
    /\ bcast = <<>>
    /\ z80_log = <<[op |-> "reset", by |-> "init", b |-> 0]>>
    /\ recvd = [c \in Conns |-> <<>>]
    /\ closed = {}
    /\ close_log = <<>>
    /\ emitted = 0 /\ sends = 0 /\ excs = 0

\* the parts a specification does not run
CodecOff == cx_in = <<>> /\ cx_cmd = <<>> /\ cx_out = <<>> /\ cx_pc = "off"
ClockOff == now = 0
IdleOff ==
    /\ last_connection_at = 0 /\ select_at = 0
    /\ idle_pc = "off" /\ idle_conns = <<>>

ExpectOff ==
    /\ expect_obj = [name |-> "", runner |-> <<>>, step |-> <<>>]
    /\ ex_calls = <<>>

ClientOff ==
    /\ client = <<>> /\ link = "off" /\ inbox = <<>> /\ kbd = <<>> /\ said = 0

Init == InitServer /\ CodecOff /\ ClockOff /\ IdleOff /\ ExpectOff /\ ClientOff

Next ==
    \/ ServeOnce
    \/ ServerExit
    \/ \E c \in Conns : ClientConnect(c)
    \/ \E c \in Conns, chunk \in ClientChunks : ClientSend(c, chunk)
    \/ \E c \in Conns : ClientClose(c)
    \/ \E c \in Conns : ClientReset(c)
    \/ \E b \in DeviceBytes : DeviceEmit(b)
    \/ \E fd \in {"sock", "z80"} \cup Conns : Exceptional(fd)

Spec == Init /\ [][Next]_vars

(***************************************************************************)
(* serve_until_idle: the loop around serve_once that closes the server     *)
(* once nobody has been connected for longer than the timeout.  The with-  *)
(* block of main is around it, so ServerExit follows its end.              *)
(***************************************************************************)
\* server.py:198  timeout=10.0, scaled down
idle_timeout == 2
\* the last moment at which the environment still acts
IdleHorizon == 2
\* where the clock of this specification stops: after the horizon there is
\* room for two full waits of select and one tick more
IdleMaxTime == IdleHorizon + 2 * idle_timeout + 1

\* if self.connections: last_connection_at = now
LastSeen(conns, last, t) == IF conns # <<>> THEN t ELSE last
\* a faulty variant: the connections are not looked at
LastKept(conns, last, t) == last

LastConnectionAt(conns, last, t) == LastSeen(conns, last, t)

\* if last_connection_at + timeout < now
IdleExpired(last, t) == last + idle_timeout < t

\* time.time() moves on
Tick(cap) ==
    /\ now < cap
    /\ now' = now + 1

\* the loop is running and its select returns: a descriptor is ready or the
\* timeout has passed
IdleWakes ==
    /\ idle_pc = "loop" /\ sock # "None" /\ raised = "none" /\ ~exited
    /\ \/ SelectReads # <<>>
       \/ SelectExcepts # <<>>
       \/ now >= select_at + idle_timeout

\* one turn of the loop: serve_once(timeout), then the idle test
ServeUntilIdle ==
    /\ IdleWakes
    /\ \E st \in {serve_once(Srv)} :
       LET ok   == st.raised = "none"
           last == LastConnectionAt(st.connections, last_connection_at, now)
           idle == ok /\ IdleExpired(last, now)
       IN  /\ Install(IF idle THEN close(st) ELSE st)
           /\ last_connection_at' = (IF ok THEN last ELSE last_connection_at)
           /\ idle_conns' = (IF ok THEN st.connections ELSE idle_conns)
           /\ idle_pc' = (IF ~ok THEN "raised"
                          ELSE IF idle THEN "idle"
                          ELSE IF st.sock = "None" THEN "ended"
                          ELSE "loop")
    /\ select_at' = now
    /\ oob' = {}
    /\ UNCHANGED <<exited, peer, count_vars, codec_vars, clock_vars, expect_vars,
                   client_vars>>

IdleTick ==
    /\ Tick(IdleMaxTime)
    /\ UNCHANGED <<server_vars, kernel_vars, seen_vars, count_vars, codec_vars,
                   idle_vars, expect_vars, client_vars>>

\* the with-block ends after the loop has
IdleExit == idle_pc # "loop" /\ ServerExit

\* the environment of the loop, which rests after the horizon
IdleConnect(c) == now <= IdleHorizon /\ ClientConnect(c)
IdleClose(c) == now <= IdleHorizon /\ ClientClose(c)
\* the device says 'A'
IdleEmit == now <= IdleHorizon /\ DeviceEmit(65)

InitIdle ==
    /\ InitServer /\ CodecOff /\ ClockOff /\ ExpectOff /\ ClientOff
    /\ last_connection_at = now
    /\ select_at = now
    /\ idle_pc = "loop"
    /\ idle_conns = <<>>

NextIdle ==
    \/ ServeUntilIdle
    \/ IdleTick
    \/ IdleExit
    \/ \E c \in Conns : IdleConnect(c)
    \/ \E c \in Conns : IdleClose(c)
    \/ IdleEmit

\* weak fairness of ServeUntilIdle, with its enabling condition written out
\* (a turn of the loop always changes the state: it reads something, clears
\* an exceptional condition or moves select_at)
IdleLoopRuns == []<>(~IdleWakes) \/ []<><<ServeUntilIdle>>_vars

\* the loop does not stall, the clock does not stop short of its bound, and
\* leaving the loop leaves the with-block
SpecIdle ==
    /\ InitIdle /\ [][NextIdle]_vars
    /\ IdleLoopRuns /\ WF_vars(IdleTick) /\ WF_vars(IdleExit)

(***************************************************************************)
(* The codec on its own: a str and a command byte are chosen, and the      *)
(* codec is applied to them.                                               *)
(***************************************************************************)
\* LF, 'A', U+00FF (the code point with the value of ESC) and U+FFFD
CodecChars == {LF, 65, ESCAPE, REPLACEMENT}
\* NUL, LF, 'r' and ESC itself
CodecCommands == {<<0>>, <<LF>>, RESET, <<ESCAPE>>}

RECURSIVE StrsUpTo(_)
StrsUpTo(n) ==
    IF n = 0 THEN {<<>>}
    ELSE LET shorter == StrsUpTo(n - 1)
         IN  shorter \cup {Append(t, c) : t \in shorter, c \in CodecChars}

InitCodec ==
    /\ InitServer /\ ClockOff /\ IdleOff /\ ExpectOff /\ ClientOff
    /\ cx_in \in StrsUpTo(MaxLen)
    /\ cx_cmd \in CodecCommands
    /\ cx_out = <<>>
    /\ cx_pc = "init"

\* list(decode(encode(cx_in)))
CodecRoundTrip ==
    /\ cx_pc = "init"
    /\ cx_out' = decode(encode(cx_in))
    /\ cx_pc' = "roundtrip"
    /\ UNCHANGED <<server_vars, kernel_vars, seen_vars, count_vars, cx_in, cx_cmd,
                   clock_vars, idle_vars, expect_vars, client_vars>>

\* list(decode(command(cx_cmd)))
CodecCommand ==
    /\ cx_pc = "init"
    /\ cx_out' = decode(command(cx_cmd))
    /\ cx_pc' = "command"
    /\ UNCHANGED <<server_vars, kernel_vars, seen_vars, count_vars, cx_in, cx_cmd,
                   clock_vars, idle_vars, expect_vars, client_vars>>

NextCodec == CodecRoundTrip \/ CodecCommand

SpecCodec == InitCodec /\ [][NextCodec]_vars

(***************************************************************************)
(* expect.py: Command, the scripts as generators, and Expect, which drives *)
(* one.  A str is a sequence of code points.  An input of interact is None *)
(* or a str; a generator is the list of library calls its body makes one   *)
(* after the other (yield from), the index of the one it is in, and the    *)
(* locals of that one.  An optional object is a sequence of length 0 or 1. *)
(***************************************************************************)
None == [none |-> TRUE, text |-> <<>>]
Some(text) == [none |-> FALSE, text |-> text]

\* expect.py:6  expires=None
NoDeadline == -1

Command(output, wants_input, expires) ==
    [output |-> output, wants_input |-> wants_input, expires |-> expires]

\* Command.expired
expired(step, t) == IF step.expires = NoDeadline THEN FALSE ELSE t > step.expires

\* s in gather
Contains(p, g) ==
    \E i \in 0..(Len(g) - Len(p)) : SubSeq(g, i + 1, i + Len(p)) = p

\* gather += part
GatherAll(gather, part) == gather \o part
\* a faulty variant: only the last part is kept
GatherLast(gather, part) == part

Gather(gather, part) == GatherAll(gather, part)

\* the calls a script body makes
Instr(op, text, t) == [op |-> op, text |-> text, t |-> t]
send(text) == <<Instr("send", text, 0)>>
receive(t) == <<Instr("receive", <<>>, t)>>
expect(text, t) == <<Instr("expect", text, t)>>
sleep(d) == <<Instr("sleep", <<>>, d)>>
\* self.send_command(zagreus.server.RESET), in the body of a script
send_command == <<Instr("send_command", <<>>, 0)>>

\* a generator that has not run yet
Generator(prog) ==
    [prog |-> prog, pc |-> 1, at |-> "start", gather |-> <<>>,
     expires |-> NoDeadline, ret |-> None]

\* what next() and send() come back with: a yielded Command, StopIteration
\* or another exception; wire is what the body wrote to the socket
Yielded(g, cmd, wire) ==
    [g |-> [g EXCEPT !.at = "yield"], kind |-> "yield", cmd |-> cmd,
     exc |-> "none", wire |-> wire]
Stopped(g, wire) ==
    [g |-> [g EXCEPT !.at = "done"], kind |-> "stop",
     cmd |-> Command(<<>>, FALSE, NoDeadline), exc |-> "none", wire |-> wire]
Raised(g, exc, wire) ==
    [g |-> [g EXCEPT !.at = "done"], kind |-> "raise",
     cmd |-> Command(<<>>, FALSE, NoDeadline), exc |-> exc, wire |-> wire]

\* expires = time.time() + timeout, when the call is entered
DeadlineAt(t, timeout) == t + timeout
\* a faulty variant: one tick more
DeadlineMoved(t, timeout) == t + timeout + 1

Deadline(t, timeout) == DeadlineAt(t, timeout)

\* the body runs from the call at g.pc to its next yield, its end or an
\* exception; sock is "up", "down" (the peer is gone) or "None"
RECURSIVE run(_, _, _, _)
run(g, t, sock_is, wire) ==
    IF g.pc > Len(g.prog) THEN Stopped(g, wire)
    ELSE LET i == g.prog[g.pc]
         IN  CASE i.op = "send" ->
                    Yielded(g, Command(i.text, FALSE, NoDeadline), wire)
               [] i.op \in {"receive", "expect", "sleep"} ->
                    LET e == Deadline(t, i.t)
                    IN  Yielded([g EXCEPT !.expires = e, !.gather = <<>>],
                                Command(<<>>, TRUE, e), wire)
               [] i.op = "send_command" ->
                    IF sock_is = "up"
                    THEN run([g EXCEPT !.pc = @ + 1], t, sock_is,
                             wire \o command(RESET))
                    ELSE IF sock_is = "down"
                    THEN Raised(g, "BrokenPipeError", wire)
                    ELSE Raised(g, "AttributeError", wire)

\* next(runner)
gen_next(g, t, sock_is) ==
    IF g.at = "start" THEN run(g, t, sock_is, <<>>) ELSE Stopped(g, <<>>)

\* runner.send(v), the generator waiting at a yield
gen_send(g, v, t, sock_is) ==
    LET i    == g.prog[g.pc]
        next == [g EXCEPT !.pc = @ + 1]
    IN  CASE i.op = "send" -> run(next, t, sock_is, <<>>)
          [] i.op = "receive" -> run([next EXCEPT !.ret = v], t, sock_is, <<>>)
          [] i.op = "expect" ->
               IF v.none THEN Raised(g, "TimeoutError", <<>>)
               ELSE LET gather == Gather(g.gather, v.text)
                    IN  IF Contains(i.text, gather)
                        THEN run([next EXCEPT !.ret = Some(gather)], t, sock_is, <<>>)
                        ELSE Yielded([g EXCEPT !.gather = gather],
                                     Command(<<>>, TRUE, g.expires), <<>>)
          [] i.op = "sleep" ->
               IF v.none THEN run([next EXCEPT !.ret = None], t, sock_is, <<>>)
               ELSE Yielded(g, Command(<<>>, TRUE, g.expires), <<>>)

\* Expect(name, runner)
Expect(name, prog) == [name |-> name, runner |-> <<Generator(prog)>>, step |-> <<>>]

\* Expect.running
running(e) == e.runner # <<>>

\* Expect.timeout, for a step that has a deadline
timeout(e, t) ==
    IF e.step = <<>> THEN NoDeadline
    ELSE IF e.step[1].expires - t > 0 THEN e.step[1].expires - t ELSE 0

\* what one interact call has done so far: the object, the on_output and
\* on_error calls, the values sent into the generator (each with the
\* wants_input of the step that got it), what went to the socket, the
\* exception that left interact, the value the script returned
Acc(e) ==
    [e |-> e, out |-> <<>>, err |-> <<>>, fed |-> <<>>, wire |-> <<>>,
     escaped |-> "none", ret |-> None, returned |-> FALSE]

\* self.on_output(v); fails names the exception it raises, "none" for none
OutputAlways(a, v, fails) ==
    IF fails # "none" THEN [a EXCEPT !.escaped = fails]
    ELSE [a EXCEPT !.out = Append(@, v)]
\* a faulty variant: only a step that has output is emitted
OutputIfAny(a, v, fails) ==
    IF v = <<>> THEN a ELSE OutputAlways(a, v, fails)

on_output(a, v, fails) == OutputAlways(a, v, fails)

\* self.on_error(*sys.exc_info()); self.runner = None; self.step = None;
\* return
on_error(a, exc, wire) ==
    [a EXCEPT !.err = Append(@, exc), !.wire = @ \o wire,
              !.e.runner = <<>>, !.e.step = <<>>, !.returned = TRUE]

\* if self.step.wants_input: s = None, where self.step is the new step cmd
\* (prev is the step that was sent s)
ResetAfterInput(prev, cmd, s) == IF cmd.wants_input THEN None ELSE s
\* a faulty variant: the input is kept when an output-only step was sent it
ResetAfterConsumer(prev, cmd, s) ==
    IF cmd.wants_input /\ prev.wants_input THEN None ELSE s

NextInput(prev, cmd, s) == ResetAfterInput(prev, cmd, s)

\* expect.py:70-77
interact_start(a, t, sock_is) ==
    IF a.e.runner # <<>> /\ a.e.step = <<>>
    THEN LET r == gen_next(a.e.runner[1], t, sock_is)
         IN  CASE r.kind = "yield" ->
                    [a EXCEPT !.e.runner = <<r.g>>, !.e.step = <<r.cmd>>,
                              !.wire = @ \o r.wire]
               [] r.kind = "stop" ->
                    [a EXCEPT !.e.runner = <<r.g>>, !.e.step = <<>>,
                              !.wire = @ \o r.wire]
               [] r.kind = "raise" -> on_error(a, r.exc, r.wire)
    ELSE a

\* expect.py:78-82
interact_first(a, fails) ==
    IF a.returned THEN a
    ELSE IF a.e.step = <<>> THEN [a EXCEPT !.returned = TRUE]
    ELSE IF a.e.step[1].output # <<>>
    THEN LET a1 == on_output(a, a.e.step[1].output, fails)
         IN  IF a1.escaped # "none" THEN a1
             ELSE [a1 EXCEPT !.e.step[1].output = <<>>]
    ELSE a

\* expect.py:83-101
RECURSIVE interact_loop(_, _, _, _, _)
interact_loop(a, s, t, sock_is, fails) ==
    IF a.returned \/ a.escaped # "none" THEN a
    ELSE LET step == a.e.step[1]
         IN  IF step.wants_input /\ s.none /\ ~expired(step, t) THEN a
             ELSE LET r  == gen_send(a.e.runner[1], s, t, sock_is)
                      a1 == [a EXCEPT !.fed = Append(@, [wants_input |-> step.wants_input,
                                                         v |-> s]),
                                      !.wire = @ \o r.wire]
                  IN  CASE r.kind = "stop" ->
                             [a1 EXCEPT !.e.runner = <<>>, !.e.step = <<>>,
                                        !.ret = r.g.ret, !.returned = TRUE]
                        [] r.kind = "raise" -> on_error(a1, r.exc, <<>>)
                        [] r.kind = "yield" ->
                             LET a2 == [a1 EXCEPT !.e.runner = <<r.g>>,
                                                  !.e.step = <<r.cmd>>]
                                 a3 == on_output(a2, r.cmd.output, fails)
                             IN  IF a3.escaped # "none" THEN a3
                                 ELSE interact_loop(
                                          [a3 EXCEPT !.e.step[1].output = <<>>],
                                          NextInput(step, r.cmd, s), t, sock_is, fails)

\* Expect.interact(s) at time t
interact(e, s, t, sock_is, fails) ==
    interact_loop(interact_first(interact_start(Acc(e), t, sock_is), fails),
                  s, t, sock_is, fails)

(***************************************************************************)
(* Expect on its own: a script is chosen, on_output and on_error record    *)
(* their calls, and interact is called with None or a chunk as the clock   *)
(* moves.                                                                  *)
(***************************************************************************)
\* the interact calls made on the script
MaxCalls == 4
\* where the clock of this specification stops
ExpectMaxTime == 3

\* 'a', 'b'
ExpectChunks == {<<97>>, <<98>>}
ExpectInputs == {None} \cup {Some(c) : c \in ExpectChunks}

\* expect('ab'), expect('a', 2), sleep(1), a script that receives, sends
\* 'x' and receives, and one that sends 'x' and expects 'b'
ExpectScripts ==
    {Expect("expect_ab", expect(<<97, 98>>, 1)),
     Expect("expect_a", expect(<<97>>, 2)),
     Expect("sleep", sleep(1)),
     Expect("receive_send_receive", receive(1) \o send(<<120>>) \o receive(1)),
     Expect("send_expect", send(<<120>>) \o expect(<<98>>, 1))}

InitExpect ==
    /\ InitServer /\ CodecOff /\ ClockOff /\ IdleOff /\ ClientOff
    /\ expect_obj \in ExpectScripts
    /\ ex_calls = <<>>

\* expect_obj.interact(s), with on_output and on_error that record
Interact(s) ==
    /\ Len(ex_calls) < MaxCalls
    /\ LET a == interact(expect_obj, s, now, "up", "none")
       IN  /\ expect_obj' = a.e
           /\ ex_calls' = Append(ex_calls,
                                 [s |-> s, at |-> now,
                                  step |-> expect_obj.step,
                                  before |-> running(expect_obj),
                                  after |-> running(a.e),
                                  out |-> a.out, err |-> a.err, fed |-> a.fed,
                                  ret |-> a.ret])
    /\ UNCHANGED <<server_vars, kernel_vars, seen_vars, count_vars, codec_vars,
                   clock_vars, idle_vars, client_vars>>

ExpectTick ==
    /\ Tick(ExpectMaxTime)
    /\ UNCHANGED <<server_vars, kernel_vars, seen_vars, count_vars, codec_vars,
                   idle_vars, expect_vars, client_vars>>

NextExpect ==
    \/ \E s \in ExpectInputs : Interact(s)
    \/ ExpectTick

SpecExpect == InitExpect /\ [][NextExpect]_vars

(***************************************************************************)
(* client.py: the key tables, the library scripts and Z80Client.  The      *)
(* clock of the client counts tenths of a second.                          *)
(***************************************************************************)
\* client.py:18  '2abcdefghijklmnopqrstuvwxyz[\]6-'
TABLE_LOWER ==
    <<50, 97, 98, 99, 100, 101, 102, 103, 104, 105, 106, 107, 108, 109, 110,
      111, 112, 113, 114, 115, 116, 117, 118, 119, 120, 121, 122, 91, 92, 93,
      54, 45>>

\* control(c) for a c that is in TABLE_LOWER
control(c) == (CHOOSE i \in 1..Len(TABLE_LOWER) : TABLE_LOWER[i] = c) - 1

\* str.lower of one ASCII character
lower(c) == IF c \in 65..90 THEN c + 32 ELSE c

base_key(c) == IF c < Len(TABLE_LOWER) THEN TABLE_LOWER[c + 1] ELSE lower(c)

\* self.menu_key = control('a')
menu_key == control(97)

\* getkey: DEL is read as backspace
getkey(c) == IF c = 127 THEN 8 ELSE c

\* the terminal's clear screen (xterm) and the form feed it stands for
CLEAR == <<27, 91, 72, 27, 91, 50, 74>>
FormFeed == 12
\* chunk.replace('\f', CLEAR)
ReplaceFormFeed(text) ==
    Flatten([i \in 1..Len(text) |-> IF text[i] = FormFeed THEN CLEAR ELSE <<text[i]>>])

\* the timeouts of the library scripts, in tenths of a second
\* client.py:213  timeout=3
MonitorTimeout == 30
\* client.py:218  sleep(0.3)
CpmSleep == 3
\* client.py:220  timeout=5
CpmTimeout == 50
\* expect.py:114  timeout=1
DefaultTimeout == 10

\* 'Small Computer Monitor - RC2014\r\n*'
BannerText ==
    <<83, 109, 97, 108, 108, 32, 67, 111, 109, 112, 117, 116, 101, 114, 32,
      77, 111, 110, 105, 116, 111, 114, 32, 45, 32, 82, 67, 50, 48, 49, 52,
      13, 10, 42>>
\* 'CPM\n', 'A>', 'BASIC\n', 'Memory top? ', 'Ok', '\n'
CpmCommand == <<67, 80, 77, 10>>
CpmPrompt == <<65, 62>>
BasicCommand == <<66, 65, 83, 73, 67, 10>>
BasicMemory == <<77, 101, 109, 111, 114, 121, 32, 116, 111, 112, 63, 32>>
BasicOk == <<79, 107>>
Newline == <<10>>

small_computer_monitor == send_command \o expect(BannerText, MonitorTimeout)
cpm ==
    small_computer_monitor \o sleep(CpmSleep) \o send(CpmCommand)
        \o expect(CpmPrompt, CpmTimeout)
basic ==
    small_computer_monitor \o send(BasicCommand)
        \o expect(BasicMemory, DefaultTimeout) \o send(Newline)
        \o expect(BasicOk, DefaultTimeout)

Library(name) ==
    CASE name = "small_computer_monitor" -> small_computer_monitor
      [] name = "cpm" -> cpm
      [] name = "basic" -> basic

\* Z80Client.__init__, with what was seen of the client so far
Z80Client ==
    [sock |-> "open", running |-> TRUE, in_menu |-> FALSE, expect |-> <<>>,
     inbox |-> <<>>, kbd |-> <<>>,
     wire |-> <<>>, key_wire |-> <<>>, keys |-> <<>>, started |-> <<>>,
     reports |-> <<>>, outs |-> 0, raised |-> "none", where |-> "none"]

\* the client's state and what its calls touch, as one value
Cl == [client EXCEPT !.inbox = inbox, !.kbd = kbd]

\* what self.sock is for a call on it
SockIs(w) == IF w.sock = "None" THEN "None" ELSE link
\* the exception sock.sendall raises
SendFails(w) ==
    IF w.sock = "None" THEN "AttributeError"
    ELSE IF link = "down" THEN "BrokenPipeError"
    ELSE "none"

\* Z80Client.close
client_close(w) ==
    IF w.sock # "None" THEN [w EXCEPT !.sock = "None", !.running = FALSE] ELSE w

\* Z80Client.send(text), called for a key
client_send(w, text) ==
    IF SendFails(w) # "none"
    THEN [w EXCEPT !.raised = SendFails(w), !.where = "send"]
    ELSE [w EXCEPT !.wire = @ \o encode(text), !.key_wire = @ \o encode(text)]

\* self.expect.interact(s), with on_output = self.send and on_error =
\* self.handle_script_error (which writes to the console)
\* the client after a call of interact that did a
interacted(w, a) ==
    [w EXCEPT !.expect = <<a.e>>,
              !.wire = @ \o a.wire
                         \o Flatten([i \in 1..Len(a.out) |-> encode(a.out[i])]),
              !.outs = @ + Len(a.out),
              !.reports = @ \o [i \in 1..Len(a.err) |->
                                   [name |-> a.e.name, exc |-> a.err[i]]],
              !.raised = a.escaped,
              !.where = IF a.escaped # "none" THEN "interact" ELSE @]

client_interact(w, s, t) ==
    IF w.raised # "none" THEN w
    ELSE interacted(w, interact(w.expect[1], s, t, SockIs(w), SendFails(w)))

\* Z80Client.run_script
run_script(w, name, t) ==
    client_interact([w EXCEPT !.expect = <<Expect(name, Library(name))>>,
                              !.started = Append(@, name)],
                    None, t)

\* c in letters.lower()
pressed(letters, c) == \E i \in 1..Len(letters) : lower(letters[i]) = c

\* Z80Client.handle_menu_key
\* the script a menu letter starts: 'r', 'c', 'b'
MenuScript(c) ==
    CASE pressed(<<114>>, c) -> "small_computer_monitor"
      [] pressed(<<99>>, c) -> "cpm"
      [] pressed(<<98>>, c) -> "basic"

\* Z80Client.handle_menu_key; 'l' and 'h?' write to the console only
handle_menu_key(w, k, t) ==
    LET c == base_key(k)
    IN  IF pressed(<<114>>, c) THEN run_script(w, MenuScript(c), t)
        ELSE IF pressed(<<108>>, c) THEN w
        ELSE IF pressed(<<120, 113>>, c) THEN client_close(w)
        ELSE IF pressed(<<99, 98>>, c) THEN run_script(w, MenuScript(c), t)
        ELSE IF pressed(<<base_key(menu_key)>>, c) THEN client_send(w, <<c>>)
        ELSE IF pressed(<<104, 63>>, c) THEN w
        ELSE w

\* the chunks of one recv go to the console and to the script
RECURSIVE feed_segments(_, _, _)
feed_segments(w, segs, t) ==
    IF segs = <<>> \/ w.raised # "none" THEN w
    ELSE LET seg == Head(segs)
             w1  == IF ~seg.is_cmd /\ w.expect # <<>>
                    THEN client_interact(w, Some(ReplaceFormFeed(seg.chunk)), t)
                    ELSE w
         IN  feed_segments(w1, Tail(segs), t)

\* the socket is readable: client.py:171-182
sock_read(w, t) ==
    LET data == Take(w.inbox, buffer_size)
    IN  feed_segments([w EXCEPT !.inbox = Drop(@, Len(data))], decode(data), t)

\* the console is readable: client.py:184-193
\* self.in_menu = False, reached when handle_menu_key returned
leave_menu(w) == IF w.raised # "none" THEN w ELSE [w EXCEPT !.in_menu = FALSE]

\* the key c was read
key_read(w, c, t) ==
    IF w.in_menu THEN leave_menu(handle_menu_key(w, c, t))
    ELSE IF c = menu_key THEN [w EXCEPT !.in_menu = TRUE]
    ELSE client_send(w, <<c>>)

console_read(w, t) ==
    IF w.raised # "none" THEN w
    ELSE key_read([w EXCEPT !.kbd = Tail(@), !.keys = Append(@, getkey(Head(w.kbd)))],
                  getkey(Head(w.kbd)), t)

\* what select finds readable
SockReadable == inbox # <<>> \/ link = "down"
ConsoleReadable == kbd # <<>>

\* a variant: the script is not jogged
no_jog(w, t) == w

\* the jog at the end of run_once: client.py:196-197
jog(w, t) ==
    IF w.raised = "none" /\ w.expect # <<>> THEN client_interact(w, None, t) ELSE w

\* Z80Client.run_once, and the __exit__ of main's with-block when it raises
\* for fd in reads: the socket comes before the console
read_sock(w, t) == IF SockReadable THEN sock_read(w, t) ELSE w
read_console(w, t) == IF ConsoleReadable THEN console_read(w, t) ELSE w

\* an exception leaves run and the with-block of main closes the client
exit_on_raise(w) == IF w.raised # "none" THEN client_close(w) ELSE w

\* Z80Client.run_once, and the __exit__ of main's with-block when it raises
run_once(w, t) ==
    IF ~w.running THEN client_close(w)
    ELSE exit_on_raise(jog(read_console(read_sock(w, t), t), t))

(***************************************************************************)
(* The client with its console, its server and the clock.                  *)
(***************************************************************************)
\* the keys typed, the messages the server sends
MaxKeys == 2
MaxSays == 2
\* the last moment at which somebody types or the server speaks
ClientHorizon == 4
\* where the clock of this specification stops: the longest script fits in
\* after the horizon
ClientMaxTime == ClientHorizon + MonitorTimeout + CpmSleep + CpmTimeout + 2

\* Ctrl-A, 'a', 'b', 'c', 'r', 'x', 'z'
Keys == {1, 97, 98, 99, 114, 120, 122}
\* what the server sends in one piece
ServerMessages == {BannerText, CpmPrompt}

\* the select of run_once returns: something is readable or the timeout
\* Expect.timeout has passed
ClientWakes ==
    /\ client.sock # "None"
    /\ \/ SockReadable
       \/ ConsoleReadable
       \/ /\ client.expect # <<>> /\ client.expect[1].step # <<>>
          /\ now >= client.expect[1].step[1].expires

InstallClient(w) ==
    /\ client' = [w EXCEPT !.inbox = <<>>, !.kbd = <<>>]
    /\ inbox' = w.inbox
    /\ kbd' = w.kbd

\* one turn of the loop of run
ClientRunOnce ==
    /\ ClientWakes
    /\ InstallClient(run_once(Cl, now))
    /\ UNCHANGED <<server_vars, kernel_vars, seen_vars, count_vars, codec_vars,
                   clock_vars, idle_vars, expect_vars, link, said>>

\* the select has returned and the turn that follows changes something
ClientTurnDue == ClientWakes /\ run_once(Cl, now) # Cl

\* a script was started and has neither completed nor failed
ScriptActive == client.expect # <<>> /\ running(client.expect[1])

\* the deadline of the script's step lies in the past
DeadlinePassed ==
    /\ client.expect # <<>> /\ client.expect[1].step # <<>>
    /\ expired(client.expect[1].step[1], now)

\* the select returns at once for input that has arrived and for a deadline
\* that has passed
SelectWaits ==
    client.sock = "None" \/ (inbox = <<>> /\ kbd = <<>> /\ ~DeadlinePassed)

\* a tenth of a second passes, as long as somebody may type or speak
ClientTick ==
    /\ now <= ClientHorizon
    /\ Tick(ClientMaxTime)
    /\ SelectWaits
    /\ UNCHANGED <<server_vars, kernel_vars, seen_vars, count_vars, codec_vars,
                   idle_vars, expect_vars, client_vars>>

\* later nothing arrives, and the select sleeps until the timeout it was
\* given has run out: the first moment at which the step has expired
ClientSleep ==
    /\ now > ClientHorizon
    /\ client.sock # "None" /\ SelectWaits
    /\ client.expect # <<>> /\ client.expect[1].step # <<>>
    /\ client.expect[1].step[1].expires + 1 <= ClientMaxTime
    /\ now' = client.expect[1].step[1].expires + 1
    /\ UNCHANGED <<server_vars, kernel_vars, seen_vars, count_vars, codec_vars,
                   idle_vars, expect_vars, client_vars>>

KeyTyped(k) ==
    /\ now <= ClientHorizon /\ client.sock # "None"
    /\ kbd = <<>> /\ Len(client.keys) < MaxKeys
    /\ kbd' = <<k>>
    /\ UNCHANGED <<server_vars, kernel_vars, seen_vars, count_vars, codec_vars,
                   clock_vars, idle_vars, expect_vars, client, link, inbox, said>>

ServerSays(msg) ==
    /\ now <= ClientHorizon /\ client.sock # "None" /\ link = "up"
    /\ inbox = <<>> /\ said < MaxSays
    /\ inbox' = encode(msg)
    /\ said' = said + 1
    /\ UNCHANGED <<server_vars, kernel_vars, seen_vars, count_vars, codec_vars,
                   clock_vars, idle_vars, expect_vars, client, link, kbd>>

\* the server closes the connection
ServerHangsUp ==
    /\ now <= ClientHorizon /\ client.sock # "None" /\ link = "up"
    /\ link' = "down"
    /\ UNCHANGED <<server_vars, kernel_vars, seen_vars, count_vars, codec_vars,
                   clock_vars, idle_vars, expect_vars, client, inbox, kbd, said>>

InitClient ==
    /\ InitServer /\ CodecOff /\ ClockOff /\ IdleOff /\ ExpectOff
    /\ client = Z80Client
    /\ link = "up"
    /\ inbox = <<>> /\ kbd = <<>> /\ said = 0

NextClient ==
    \/ ClientRunOnce
    \/ ClientTick
    \/ ClientSleep
    \/ \E k \in Keys : KeyTyped(k)
    \/ \E msg \in ServerMessages : ServerSays(msg)
    \/ ServerHangsUp

\* weak fairness of ClientRunOnce, with what enables it written out
ClientLoopRuns ==
    \/ []<>(~ClientTurnDue)
    \/ []<><<ClientRunOnce>>_vars

\* the loop of run does not stall and the clock does not stop short of its
\* bound
SpecClient ==
    /\ InitClient /\ [][NextClient]_vars
    /\ ClientLoopRuns /\ WF_vars(ClientTick) /\ WF_vars(ClientSleep)

(***************************************************************************)
(* What the claims speak of.                                               *)
(***************************************************************************)
Registered == DOMAIN conn_addrs
Accepted == Registered \cup closed
Alive(c) == c \in Registered /\ peer[c] = "up"

IsPrefix(a, b) == Len(a) <= Len(b) /\ SubSeq(b, 1, Len(a)) = a
Chars(entries) == [i \in 1..Len(entries) |-> entries[i].c]
FromDevice(entries) == SelectSeq(entries, LAMBDA e : e.src = "dev")
CountSrc(tagged, src) == Len(SelectSeq(tagged, LAMBDA e : e.src = src))

\* the bytes a run of broadcast characters puts on a socket
Wire(entries) ==
    Flatten([i \in 1..Len(entries) |-> Tagged(encode(<<entries[i].c>>), entries[i].src)])

\* the backbuffer when c was accepted, and what was broadcast since
BackbufferAt(c) == Last(Chars(SubSeq(bcast, 1, joined[c])), backbuffer_max)
Since(c) == SubSeq(bcast, joined[c] + 1, Len(bcast))

\* the device as client c drove it
WritesBy(c) ==
    LET mine == SelectSeq(z80_log, LAMBDA e : e.op = "write" /\ e.by = c)
    IN  [i \in 1..Len(mine) |-> mine[i].b]
ResetsBy(c) == Len(SelectSeq(z80_log, LAMBDA e : e.op = "reset" /\ e.by = c))
RecvdBytes(c) == Flatten(recvd[c])
IsAscii(data) == \A i \in 1..Len(data) : data[i] < 128

\* the wire format read off a byte stream: the data payload (ESC ESC is one
\* ESC of payload, ESC-and-another-byte is a command frame and no payload)
RECURSIVE PayloadFrom(_, _)
PayloadFrom(data, i) ==
    IF i > Len(data) THEN <<>>
    ELSE IF data[i] # ESCAPE THEN <<data[i]>> \o PayloadFrom(data, i + 1)
    ELSE IF i = Len(data) THEN <<>>
    ELSE IF data[i + 1] = ESCAPE THEN <<ESCAPE>> \o PayloadFrom(data, i + 2)
    ELSE PayloadFrom(data, i + 2)
Payload(data) == PayloadFrom(data, 1)

\* and the number of reset frames (ESC, 'r') in it
RECURSIVE ResetFramesFrom(_, _)
ResetFramesFrom(data, i) ==
    IF i >= Len(data) THEN 0
    ELSE IF data[i] # ESCAPE THEN ResetFramesFrom(data, i + 1)
    ELSE (IF <<data[i + 1]>> = RESET THEN 1 ELSE 0) + ResetFramesFrom(data, i + 2)
RECURSIVE ResetFramesIn(_)
ResetFramesIn(chunks) ==
    IF chunks = <<>> THEN 0
    ELSE ResetFramesFrom(Head(chunks), 1) + ResetFramesIn(Tail(chunks))

\* each LF as CR LF
RECURSIVE LfAsCrLf(_)
LfAsCrLf(data) ==
    IF data = <<>> THEN <<>>
    ELSE (IF Head(data) = LF THEN <<CR, LF>> ELSE <<Head(data)>>) \o LfAsCrLf(Tail(data))

\* what one read of data does to the device: the bytes written, the resets
WritesOfRead(data) ==
    LET segs == decode(data)
    IN  Flatten([i \in 1..Len(segs) |->
                    IF segs[i].is_cmd THEN <<>> ELSE AsciiEncode(LfAsCrLf(segs[i].chunk))])
ResetsOfRead(data) ==
    Len(SelectSeq(decode(data), LAMBDA seg : seg.is_cmd /\ seg.chunk = RESET))

(***************************************************************************)
(* C1.  A client that was accepted while the backbuffer held B has         *)
(* received encode(B) first, before anything sent later (device output     *)
(* read in the same wake included); a client whose end was already gone    *)
(* at its accept has received nothing.                                     *)
(***************************************************************************)
C1_BackbufferFirst ==
    \A c \in Accepted :
        LET want == Tagged(encode(BackbufferAt(c)), "bb")
        IN  \/ /\ IsPrefix(want, rx[c])
               /\ \A i \in (Len(want) + 1)..Len(rx[c]) : rx[c][i].src # "bb"
            \/ rx[c] = <<>> /\ peer[c] # "up"

C1_Witness ==
    \E c \in Registered :
        /\ peer[c] = "up"
        /\ Len(BackbufferAt(c)) = backbuffer_max
        /\ BackbufferAt(c)[1] = REPLACEMENT
        /\ Len(rx[c]) > Len(encode(BackbufferAt(c)))
        /\ rx[c][Len(rx[c])].src = "dev"

C3_PayloadInOrder ==
    \A c \in Conns :
        (Alive(c) /\ raised = "none") => WritesBy(c) = LfAsCrLf(Payload(RecvdBytes(c)))

\* C3, amended: for a client that has sent nothing but 7-bit ASCII, the
\* bytes written to the device on its behalf are the bytes read from it, in
\* order, each LF as CR LF, over any number of reads.
C3_AsciiInOrder ==
    \A c \in Conns :
        IsAscii(RecvdBytes(c)) => WritesBy(c) = LfAsCrLf(RecvdBytes(c))

C3_Witness ==
    \E c \in Conns :
        /\ Len(recvd[c]) >= 2
        /\ IsAscii(RecvdBytes(c))
        /\ \E i \in 1..Len(RecvdBytes(c)) : RecvdBytes(c)[i] = LF
        /\ \E i \in 1..Len(RecvdBytes(c)) : RecvdBytes(c)[i] # LF
        /\ WritesBy(c) # <<>>

(***************************************************************************)
(* C4.  As claimed: the device was reset once for every reset frame in     *)
(* the chunks read from a client and for nothing else, every reset was     *)
(* followed by one broadcast of "\n", and every client that is connected   *)
(* has received one "\n" for every reset since its accept.                 *)
(***************************************************************************)
C4_OneResetPerFrame ==
    /\ \A c \in Conns : ResetsBy(c) = ResetFramesIn(recvd[c])
    /\ CountSrc(bcast, "rst") = Len(SelectSeq(z80_log, LAMBDA e : e.op = "reset")) - 1
    /\ \A c \in Conns : Alive(c) => CountSrc(rx[c], "rst") = CountSrc(Since(c), "rst")

(***************************************************************************)
(* C5.  As claimed: the backbuffer is the last min(N, M) characters of     *)
(* the M the device has produced, N = backbuffer_max.                      *)
(***************************************************************************)
C5_LastOfDevice ==
    backbuffer = Last(Chars(FromDevice(bcast)), backbuffer_max)

\* C5, amended: the backbuffer is the last min(N, M) characters of the M
\* handed to send_to_all, which are the device's output and one "\n" for
\* every reset command, in the order they came.
C5_LastOfBroadcast ==
    backbuffer = Last(Chars(bcast), backbuffer_max)

C5_Witness ==
    /\ Len(bcast) > backbuffer_max
    /\ CountSrc(bcast, "rst") > 0
    /\ CountSrc(bcast, "dev") > 0
    /\ backbuffer # Last(Chars(FromDevice(bcast)), backbuffer_max)

C7_CommandAlone ==
    (cx_pc = "command" /\ cx_cmd # <<ESCAPE>>)
        => cx_out = <<[is_cmd |-> TRUE, chunk |-> cx_cmd]>>

\* C7, amended: decode(command(c)), c not ESC, is (False, ''), (True, c),
\* (False, ''): one command segment between two empty text segments, which
\* decode does not suppress.
C7_CommandFlanked ==
    (cx_pc = "command" /\ cx_cmd # <<ESCAPE>>)
        => cx_out = <<[is_cmd |-> FALSE, chunk |-> <<>>],
                      [is_cmd |-> TRUE, chunk |-> cx_cmd],
                      [is_cmd |-> FALSE, chunk |-> <<>>]>>

C7_Witness ==
    /\ cx_pc = "command"
    /\ cx_cmd = RESET
    /\ Len(cx_out) = 3
    /\ cx_out[2] = [is_cmd |-> TRUE, chunk |-> RESET]

(***************************************************************************)
(* C8.  As claimed: a client from which the server has read ESC ESC and    *)
(* nothing else has had one 0xFF byte written to the device, and there     *)
(* was no reset and no broadcast of "\n".                                  *)
(***************************************************************************)
C8_EscapedEscape ==
    \A c \in Conns :
        (recvd[c] = <<(<<ESCAPE, ESCAPE>>)>> /\ raised = "none")
            => /\ WritesBy(c) = <<ESCAPE>>
               /\ ResetsBy(c) = 0
               /\ CountSrc(rx[c], "rst") = CountSrc(Since(c), "rst")

(***************************************************************************)
(* C9.  As claimed: what the reads from a client did to the device (the    *)
(* bytes written, the resets) is what one read of the same bytes does, a   *)
(* lone ESC at the end of a read being kept for the next.                  *)
(***************************************************************************)
C9_SplitFrame ==
    \A c \in Conns :
        (raised = "none" /\ Len(recvd[c]) = 2
         /\ recvd[c][1] = <<ESCAPE>> /\ Len(recvd[c][2]) = 1)
            => /\ WritesBy(c) = WritesOfRead(RecvdBytes(c))
               /\ ResetsBy(c) = ResetsOfRead(RecvdBytes(c))

(***************************************************************************)
(* C10.  As claimed: while no exceptional condition has been signalled,    *)
(* whatever fails on a client's socket, serve_once has not raised, the     *)
(* listening socket is open, and the only clients closed are those whose   *)
(* own socket failed.                                                      *)
(***************************************************************************)
C10_OnlyThatClient ==
    (excs = 0 /\ ~exited)
        => /\ raised = "none"
           /\ sock = "listening"
           /\ \A c \in closed : peer[c] # "up"
           /\ \A c \in Conns : (c \in Accepted /\ peer[c] = "up") => c \in Registered


(***************************************************************************)
(* C11: serve_until_idle never closes the server for idleness in a turn of *)
(* the loop in which self.connections is non-empty, and whenever the       *)
(* connection set is empty, either somebody is registered again or the     *)
(* server ends closed (listening socket None, registry empty) with the     *)
(* loop over.                                                              *)
(***************************************************************************)
C11_IdleClose ==
    /\ [](idle_pc = "idle" => idle_conns = <<>>)
    /\ [](connections = <<>> =>
            <>(\/ connections # <<>>
               \/ /\ sock = "None" /\ conn_addrs = <<>> /\ idle_pc # "loop"))

\* the loop closed the server for idleness after a client had been
\* registered and had gone
C11_Witness ==
    /\ idle_pc = "idle" /\ sock = "None" /\ connections = <<>>
    /\ closed # {}
    /\ last_connection_at > 0

(***************************************************************************)
(* C17 as stated: close() closes every registered client first and then    *)
(* the listening socket.                                                   *)
(***************************************************************************)
C17_ClientsThenSock ==
    [][(sock # "None" /\ sock' = "None") =>
          IsPrefix(close_log \o connections \o <<"sock">>, close_log')]_vars

(***************************************************************************)
(* C17, amended: close() closes the listening socket first and then every  *)
(* registered client in the order of the registry, leaves the registry and *)
(* the label map empty and the listening socket None, and the close() of   *)
(* __exit__ on a server that is closed already changes nothing and closes  *)
(* nothing.                                                                *)
(***************************************************************************)
C17_SockThenClients ==
    [][/\ (sock # "None" /\ sock' = "None") =>
            /\ IsPrefix(close_log \o <<"sock">> \o connections, close_log')
            /\ connections' = <<>> /\ conn_addrs' = <<>>
       /\ (exited' /\ ~exited) =>
            /\ sock' = "None" /\ connections' = <<>> /\ conn_addrs' = <<>>
            /\ close_log' = close_log \o (IF sock # "None" THEN <<"sock">> ELSE <<>>)
                                      \o connections
            /\ (sock = "None" /\ connections = <<>>) =>
                   UNCHANGED <<sock, connections, conn_addrs, backbuffer, raised,
                               kernel_vars, seen_vars>>]_vars

\* serve_once closed the server with a client registered, serve_forever
\* returned and __exit__ has called close() a second time
C17_Witness ==
    /\ exited /\ raised = "none"
    /\ Len(close_log) >= 2 /\ close_log[1] = "sock"
    /\ sock = "None" /\ connections = <<>>

(***************************************************************************)
(* The calls of SpecExpect.                                                *)
(***************************************************************************)
\* the body of the script under test
ScriptProg == (CHOOSE e \in ExpectScripts : e.name = expect_obj.name).runner[1].prog
\* the script is one expect(p, t) / one sleep(d)
IsExpect == ScriptProg # <<>> /\ Len(ScriptProg) = 1 /\ ScriptProg[1].op = "expect"
IsSleep == ScriptProg # <<>> /\ Len(ScriptProg) = 1 /\ ScriptProg[1].op = "sleep"
\* the deadline of a script of one call: it starts in the first interact
FirstDeadline == ex_calls[1].at + ScriptProg[1].t
\* the chunks of the first j calls, one after the other
RECURSIVE ChunksOf(_, _)
ChunksOf(calls, j) ==
    IF j = 0 THEN <<>>
    ELSE ChunksOf(calls, j - 1) \o (IF calls[j].s.none THEN <<>> ELSE calls[j].s.text)
\* the first j calls were all made before the deadline
AllEarly(j) == \A i \in 1..j : ex_calls[i].at <= FirstDeadline

(***************************************************************************)
(* C14: for expect(p, t) fed chunks before its deadline, the script is     *)
(* still running after every call whose chunks so far do not contain p, it *)
(* completes in the call that brings the first chunk with which they do,   *)
(* and its result is exactly the chunks up to that one, concatenated.      *)
(***************************************************************************)
C14_ExpectCompletes ==
    IsExpect =>
        \A j \in 1..Len(ex_calls) :
            (ex_calls[j].before /\ AllEarly(j)) =>
                LET gather == ChunksOf(ex_calls, j)
                IN  /\ ex_calls[j].err = <<>>
                    /\ ex_calls[j].after <=> ~Contains(ScriptProg[1].text, gather)
                    /\ ~ex_calls[j].after => ex_calls[j].ret = Some(gather)

\* expect('ab') got 'a' and was still running, got 'b' and returned 'ab'
C14_Witness ==
    /\ IsExpect /\ Len(ex_calls) >= 2 /\ AllEarly(Len(ex_calls))
    /\ \E j \in 2..Len(ex_calls) :
          /\ ex_calls[j - 1].after /\ ~ex_calls[j - 1].s.none
          /\ ~ex_calls[j].after /\ ex_calls[j].before
          /\ Len(ChunksOf(ex_calls, j)) >= 2
          /\ ex_calls[j].ret = Some(ChunksOf(ex_calls, j))

(***************************************************************************)
(* C15 as stated: expect(p, t) whose input never contains p fails with     *)
(* TimeoutError, reported through on_error, in an interact(None) call: the *)
(* first one made after the deadline now + t fixed when expect started; no *)
(* call made before the deadline fails it, and chunks do not move the      *)
(* deadline.                                                               *)
(***************************************************************************)
C15_TimeoutOnNone ==
    IsExpect =>
        \A j \in 1..Len(ex_calls) :
            (ex_calls[j].before /\ ~Contains(ScriptProg[1].text, ChunksOf(ex_calls, j))) =>
                /\ ex_calls[j].err = <<"TimeoutError">> <=>
                       (ex_calls[j].s.none /\ ex_calls[j].at > FirstDeadline)
                /\ ex_calls[j].err \in {<<>>, <<"TimeoutError">>}
                /\ ex_calls[j].after <=> ex_calls[j].err = <<>>

(***************************************************************************)
(* C15, amended: expect(p, t) whose input never contains p fails with      *)
(* TimeoutError, reported once through on_error, in the first interact     *)
(* call made after the deadline now + t fixed when expect started, be it   *)
(* interact(None) or interact(chunk) with a chunk that does not complete   *)
(* p; no call made before the deadline fails it, and chunks do not move    *)
(* the deadline.                                                           *)
(***************************************************************************)
C15_TimeoutOnFirstLate ==
    IsExpect =>
        \A j \in 1..Len(ex_calls) :
            (ex_calls[j].before /\ ~Contains(ScriptProg[1].text, ChunksOf(ex_calls, j))) =>
                /\ ex_calls[j].err = <<"TimeoutError">> <=> ex_calls[j].at > FirstDeadline
                /\ ex_calls[j].err \in {<<>>, <<"TimeoutError">>}
                /\ ex_calls[j].after <=> ex_calls[j].err = <<>>

\* a chunk came before the deadline and did not move it: the script has
\* failed in the first call after the deadline, which brought a chunk
C15_Witness ==
    /\ IsExpect /\ Len(ex_calls) >= 3
    /\ ~Contains(ScriptProg[1].text, ChunksOf(ex_calls, Len(ex_calls)))
    /\ \E j \in 3..Len(ex_calls) :
          /\ ~ex_calls[j - 1].s.none /\ ex_calls[j - 1].at > ex_calls[1].at
          /\ ex_calls[j - 1].at <= FirstDeadline /\ ex_calls[j - 1].after
          /\ ~ex_calls[j].s.none /\ ex_calls[j].at > FirstDeadline
          /\ ex_calls[j].err = <<"TimeoutError">> /\ ~ex_calls[j].after

(***************************************************************************)
(* C16: sleep(d) invokes neither on_output nor on_error in any interact    *)
(* call, with None or with a chunk, and the script completes in the first  *)
(* interact(None) made after d has elapsed, not before.                    *)
(***************************************************************************)
C16_SleepIsSilent ==
    IsSleep =>
        \A j \in 1..Len(ex_calls) :
            /\ ex_calls[j].out = <<>> /\ ex_calls[j].err = <<>>
            /\ ex_calls[j].before =>
                 /\ ex_calls[j].at <= FirstDeadline => ex_calls[j].after
                 /\ (ex_calls[j].s.none /\ ex_calls[j].at > FirstDeadline)
                        => ~ex_calls[j].after

(***************************************************************************)
(* C18 as stated: within one interact(chunk) call, once a wants_input step *)
(* has been sent the chunk, every step advanced later in the call is sent  *)
(* None.                                                                   *)
(***************************************************************************)
C18_NoneAfterInput ==
    \A c \in 1..Len(ex_calls) :
        LET fed == ex_calls[c].fed
        IN  \A i, j \in 1..Len(fed) :
                (i < j /\ fed[i].wants_input /\ ~fed[i].v.none) => fed[j].v.none

(***************************************************************************)
(* C18, amended: within one interact(chunk) call the chunk is sent to at   *)
(* most one wants_input step; every wants_input step advanced later in the *)
(* call is sent None, while an output-only step that follows the consumer  *)
(* is resumed with the same chunk.                                         *)
(***************************************************************************)
C18_OneInputStep ==
    \A c \in 1..Len(ex_calls) :
        LET fed == ex_calls[c].fed
        IN  /\ Cardinality({i \in 1..Len(fed) :
                               fed[i].wants_input /\ ~fed[i].v.none}) <= 1
            /\ \A i, j \in 1..Len(fed) :
                  (i < j /\ fed[i].wants_input /\ ~fed[i].v.none) =>
                      IF fed[j].wants_input THEN fed[j].v.none
                      ELSE fed[j].v = ex_calls[c].s

\* a chunk went to the first receive and again to the send after it, and
\* the second receive is left waiting without it
C18_Witness ==
    \E c \in 1..Len(ex_calls) :
        LET fed == ex_calls[c].fed
        IN  /\ Len(fed) = 2 /\ ~ex_calls[c].s.none
            /\ fed[1].wants_input /\ fed[1].v = ex_calls[c].s
            /\ ~fed[2].wants_input /\ fed[2].v = ex_calls[c].s
            /\ c = Len(ex_calls)
            /\ expect_obj.step # <<>> /\ expect_obj.step[1].wants_input

(***************************************************************************)
(* The menu of the client.                                                 *)
(***************************************************************************)
\* the connection stands and nothing has raised
ClientSound == link = "up" /\ client.raised = "none"

\* C12: with the menu key Ctrl-A and the latch clear at first, typing the
\* menu key twice sends exactly one byte, 0x01, to the server and leaves the
\* latch cleared.
C12_DoubledMenuKey ==
    (client.keys = <<menu_key, menu_key>> /\ ClientSound)
        => (client.wire = <<1>> /\ ~client.in_menu)

\* a turn of the loop reads one key, with the connection standing
KeyStep ==
    /\ Len(client'.keys) = Len(client.keys) + 1
    /\ ClientSound /\ ClientSound'

\* the key a KeyStep reads
KeyOf(w) == w.keys[Len(w.keys)]

\* the letters handle_menu_key tests for: r l x q c b, the menu key's, h ?
MenuLetters == {114, 108, 120, 113, 99, 98, base_key(menu_key), 104, 63}

\* C19: a key is forwarded to the server exactly when the latch is clear and
\* the key is not the menu key, or when it is the doubled menu key; the latch
\* is set only by a menu key typed while clear and is cleared by the very
\* next key; a key typed while latched that matches no menu binding sends
\* nothing, starts no script and does not close the client.
C19_KeyDispatch ==
    [][KeyStep =>
        LET k       == KeyOf(client')
            latched == client.in_menu
        IN  /\ IF (~latched /\ k # menu_key) \/ (latched /\ k = menu_key)
               THEN client'.key_wire = Append(client.key_wire, k)
               ELSE client'.key_wire = client.key_wire
            /\ client'.in_menu = (~latched /\ k = menu_key)
            /\ (latched /\ base_key(k) \notin MenuLetters)
                   => /\ client'.key_wire = client.key_wire
                      /\ client'.started = client.started
                      /\ client'.sock = client.sock]_vars

(***************************************************************************)
(* The scripts of the client.                                              *)
(***************************************************************************)
\* C13: with on_output and on_error as the client registers them, a failure
\* raised while a script is started or advanced is reported once through
\* on_error, the script is inert afterwards, and interact never raises to
\* its caller.
C13_FailuresContained ==
    /\ client.where # "interact"
    /\ Len(client.reports) <= Len(client.started)
    /\ (client.reports # <<>> /\ Len(client.started) = 1) => ~ScriptActive

\* C20: while the loop of the client runs, every library script that was
\* started reaches completed or failed in the end, also when the server
\* sends nothing and no key is typed.
C20_ScriptsEnd == [](ScriptActive => <>(~ScriptActive \/ client.sock = "None"))

\* a library script has failed by its own timeout, the server having sent
\* nothing, and the client is still connected
C20_Witness ==
    /\ client.started # <<>> /\ ~ScriptActive
    /\ client.reports = <<[name |-> client.started[1], exc |-> "TimeoutError"]>>
    /\ said = 0 /\ link = "up" /\ client.sock = "open"

(***************************************************************************)
(* The label map of the server.                                            *)
(***************************************************************************)
\* the keys of conn_addrs are the registered connections
LabelsMatch == DOMAIN conn_addrs = Range(connections)

\* no connection was closed twice
ClosedOnce ==
    \A i, j \in 1..Len(close_log) : close_log[i] = close_log[j] => i = j

\* C21: in every reachable state of the server the keys of the label map are
\* exactly the registered connections, no connection is closed twice, and no
\* label is looked up for a connection that was removed already.
C21_LabelsInStep == LabelsMatch /\ ClosedOnce /\ raised # "KeyError"

(***************************************************************************)
(* The end of the connection, seen from the client.                        *)
(***************************************************************************)
\* C22: when the server has closed the connection, so that the client's
\* socket reads end-of-file, the client closes its socket in the end and the
\* loop of run terminates.
C22_EofEndsLoop == [](link = "down" => <>(client.sock = "None"))

=============================================================================
